---- MODULE Spec2Model ----
(***************************************************************************)
(* Task Manager with per-task countdown timers: the task/timer state       *)
(* machine of the timer-enabled script and its localStorage persistence.   *)
(* Texts are sequences of one-character strings, times are milliseconds.   *)
(* createdAt is a stamp no handler reads back: the model follows the       *)
(* clock of new Date() in the specification that is about the stamps       *)
(* (SpecStamp) and holds it at the epoch in the others, where it would     *)
(* only multiply the states.                                               *)
(***************************************************************************)
EXTENDS Integers, Sequences, FiniteSets, TLC

VARIABLES
    tasks,      \* let tasks = []           : the in-memory task array
    taskId,     \* let taskId = 0           : the id counter
    storage,    \* localStorage[STORAGE_KEY]: NoValue, Corrupt or a JSON array
    now,        \* Date.now(), in milliseconds
    assigned,   \* history: every id createTask has handed out
    taskTimerInterval,  \* window.__taskTimerInterval: Null or a handle
    intervals,  \* the handles of the setInterval timers the page has going
    date,       \* new Date(), in milliseconds, where the model follows it
    out         \* the last step: the handler that ran, its argument and results

ticker == <<taskTimerInterval, intervals>>

vars == <<tasks, taskId, storage, now, assigned, ticker, date, out>>

----------------------------------------------------------------------------
(* Bounds of the model *)

MaxTaskId == 2

MaxLimitAdds == 1

MaxLoadId == 2

MaxQuotaId == 1

MaxLiveId == 2

MaxStampId == 2

(* Program constants *)

MAX_TASKS == 100

MinLength == 3

MaxLength == 200

SecondsPerMinute == 60

MsPerSecond == 1000

Null == -1

----------------------------------------------------------------------------
(* Values of the environment *)

NoValue == [kind |-> "null"]

Corrupt == [kind |-> "garbage"]

JSONArray(a) == [kind |-> "array", value |-> a]

Whitespace == {" ", "\t"}

Repeat(c, n) == [i \in 1..n |-> c]

Long201 == Repeat("q", MaxLength + 1)

RawTexts ==
    { <<>>,
      <<" ", "\t">>,
      <<"a", "b">>,
      <<" ", "a", "b", " ">>,
      <<"a", "b", "c">>,
      <<" ", "A", "B", "C", " ">>,
      <<"x", "y", "z">>,
      Long201 }

TimerInputs == {-1, 0, 1}

(* The instants at which something happens: the start, a moment half a     *)
(* second off the whole seconds of a one-minute timer started at 0, that   *)
(* timer's deadline, and a second past it.                                 *)
Instants == {0, 29500, 60000, 61000}

LegacyTask(i, txt, done) ==
    [id |-> i, text |-> txt, completed |-> done, createdAt |-> [iso |-> 0]]

InitialStores ==
    { NoValue,
      Corrupt,
      JSONArray(<<LegacyTask(1, <<"a", "b", "c">>, TRUE)>>) }

----------------------------------------------------------------------------
(* String.prototype.trim, toLowerCase, length *)

RECURSIVE TrimStart(_)
TrimStart(s) ==
    IF s # <<>> /\ Head(s) \in Whitespace THEN TrimStart(Tail(s)) ELSE s

RECURSIVE TrimEnd(_)
TrimEnd(s) ==
    IF s # <<>> /\ s[Len(s)] \in Whitespace
    THEN TrimEnd(SubSeq(s, 1, Len(s) - 1))
    ELSE s

Trim(s) == TrimEnd(TrimStart(s))

LowerChar(c) ==
    CASE c = "A" -> "a"
      [] c = "B" -> "b"
      [] c = "C" -> "c"
      [] c = "Q" -> "q"
      [] c = "X" -> "x"
      [] c = "Y" -> "y"
      [] c = "Z" -> "z"
      [] OTHER -> c

ToLowerCase(s) == [i \in 1..Len(s) |-> LowerChar(s[i])]

----------------------------------------------------------------------------
(* Helpers over the task array *)

Ids(ts) == {ts[i].id : i \in 1..Len(ts)}

(* Mutant: an unknown id finds the first task *)
FindOrFirst(ts, id) ==
    IF \E i \in 1..Len(ts) : ts[i].id = id
    THEN CHOOSE i \in 1..Len(ts) :
            ts[i].id = id /\ \A j \in 1..(i - 1) : ts[j].id # id
    ELSE IF Len(ts) > 0 THEN 1 ELSE 0

(* Mutant: the id is taken for a position in the array *)
FindByPosition(ts, id) ==
    IF id \in 1..Len(ts) THEN id ELSE 0

Find(ts, id) ==
    IF \E i \in 1..Len(ts) : ts[i].id = id
    THEN CHOOSE i \in 1..Len(ts) :
            ts[i].id = id /\ \A j \in 1..(i - 1) : ts[j].id # id
    ELSE 0

MaxOf(S) == CHOOSE m \in S : \A x \in S : x <= m

Truthy(v) == v # Null /\ v # 0

MathRound(num, den) == (2 * num + den) \div (2 * den)

MathMax(a, b) == IF a >= b THEN a ELSE b

----------------------------------------------------------------------------
(* createTask *)

(* Mutant: the counter is read before it is incremented (taskId++) *)
createTaskPostIncrement(text, timerSeconds, tid, t, d) ==
    [id |-> tid,
     text |-> text,
     completed |-> FALSE,
     createdAt |-> d,
     timerSeconds |-> timerSeconds,
     timerRemainingSeconds |-> timerSeconds,
     timerEnd |-> IF timerSeconds > 0 THEN t + timerSeconds * MsPerSecond ELSE Null,
     incomplete |-> FALSE]

(* Mutant: a new task's timer is not started at creation *)
createTaskNotRunning(text, timerSeconds, tid, t, d) ==
    [id |-> tid + 1,
     text |-> text,
     completed |-> FALSE,
     createdAt |-> d,
     timerSeconds |-> timerSeconds,
     timerRemainingSeconds |-> timerSeconds,
     timerEnd |-> Null,
     incomplete |-> FALSE]

createTask(text, timerSeconds, tid, t, d) ==
    [id |-> tid + 1,
     text |-> text,
     completed |-> FALSE,
     createdAt |-> d,
     timerSeconds |-> timerSeconds,
     timerRemainingSeconds |-> timerSeconds,
     timerEnd |-> IF timerSeconds > 0 THEN t + timerSeconds * MsPerSecond ELSE Null,
     incomplete |-> FALSE]

----------------------------------------------------------------------------
(* JSON.stringify(tasks) / JSON.parse and the normalisation of loadTasks *)

(* Date.prototype.toJSON writes the instant as an ISO string of            *)
(* millisecond precision; new Date(string) reads the instant back          *)

toISOString(d) == [iso |-> d]

NewDate(v) == v.iso

(* Mutant: the deadline of a running timer is not written *)
JSONStringifyDropsTimerEnd(ts) ==
    [i \in 1..Len(ts) |->
        [id |-> ts[i].id,
         text |-> ts[i].text,
         completed |-> ts[i].completed,
         createdAt |-> toISOString(ts[i].createdAt),
         timerSeconds |-> ts[i].timerSeconds,
         timerRemainingSeconds |-> ts[i].timerRemainingSeconds,
         incomplete |-> ts[i].incomplete]]

JSONStringify(ts) ==
    [i \in 1..Len(ts) |->
        [id |-> ts[i].id,
         text |-> ts[i].text,
         completed |-> ts[i].completed,
         createdAt |-> toISOString(ts[i].createdAt),
         timerSeconds |-> ts[i].timerSeconds,
         timerRemainingSeconds |-> ts[i].timerRemainingSeconds,
         timerEnd |-> ts[i].timerEnd,
         incomplete |-> ts[i].incomplete]]

Has(r, f) == f \in DOMAIN r

NumberOr(r, f, d) == IF Has(r, f) /\ Truthy(r[f]) THEN r[f] ELSE d

ToBoolean(r, f) == Has(r, f) /\ r[f]

(* Mutant: the normaliser forgets the incomplete field *)
NormalizeDropsIncomplete(r, d) ==
    [id |-> r.id,
     text |-> r.text,
     completed |-> ToBoolean(r, "completed"),
     createdAt |-> IF Has(r, "createdAt") THEN NewDate(r.createdAt) ELSE d,
     timerSeconds |-> NumberOr(r, "timerSeconds", 0),
     timerRemainingSeconds |->
        IF Has(r, "timerRemainingSeconds")
        THEN r.timerRemainingSeconds
        ELSE NumberOr(r, "timerSeconds", 0),
     timerEnd |-> NumberOr(r, "timerEnd", Null),
     incomplete |-> FALSE]

(* Mutant: a stored remaining time of 0 is taken for a missing one *)
NormalizeRefillsRemaining(r, d) ==
    [id |-> r.id,
     text |-> r.text,
     completed |-> ToBoolean(r, "completed"),
     createdAt |-> IF Has(r, "createdAt") THEN NewDate(r.createdAt) ELSE d,
     timerSeconds |-> NumberOr(r, "timerSeconds", 0),
     timerRemainingSeconds |->
        NumberOr(r, "timerRemainingSeconds", NumberOr(r, "timerSeconds", 0)),
     timerEnd |-> NumberOr(r, "timerEnd", Null),
     incomplete |-> ToBoolean(r, "incomplete")]

(* Mutant: a loaded task never has a running timer *)
NormalizeStopsTimers(r, d) ==
    [id |-> r.id,
     text |-> r.text,
     completed |-> ToBoolean(r, "completed"),
     createdAt |-> IF Has(r, "createdAt") THEN NewDate(r.createdAt) ELSE d,
     timerSeconds |-> NumberOr(r, "timerSeconds", 0),
     timerRemainingSeconds |->
        IF Has(r, "timerRemainingSeconds")
        THEN r.timerRemainingSeconds
        ELSE NumberOr(r, "timerSeconds", 0),
     timerEnd |-> Null,
     incomplete |-> ToBoolean(r, "incomplete")]

(* Mutant: every load stamps the task anew *)
NormalizeRestamps(r, d) ==
    [id |-> r.id,
     text |-> r.text,
     completed |-> ToBoolean(r, "completed"),
     createdAt |-> d,
     timerSeconds |-> NumberOr(r, "timerSeconds", 0),
     timerRemainingSeconds |->
        IF Has(r, "timerRemainingSeconds")
        THEN r.timerRemainingSeconds
        ELSE NumberOr(r, "timerSeconds", 0),
     timerEnd |-> NumberOr(r, "timerEnd", Null),
     incomplete |-> ToBoolean(r, "incomplete")]

Normalize(r, d) ==
    [id |-> r.id,
     text |-> r.text,
     completed |-> ToBoolean(r, "completed"),
     createdAt |-> IF Has(r, "createdAt") THEN NewDate(r.createdAt) ELSE d,
     timerSeconds |-> NumberOr(r, "timerSeconds", 0),
     timerRemainingSeconds |->
        IF Has(r, "timerRemainingSeconds")
        THEN r.timerRemainingSeconds
        ELSE NumberOr(r, "timerSeconds", 0),
     timerEnd |-> NumberOr(r, "timerEnd", Null),
     incomplete |-> ToBoolean(r, "incomplete")]

(* Mutant: the highest id is not looked up after parsing *)
loadTasksKeepsCounter(ts, tid, stored, d) ==
    IF stored.kind = "null" THEN <<ts, tid>>
    ELSE IF stored.kind # "array" THEN <<<<>>, tid>>
    ELSE <<[i \in 1..Len(stored.value) |-> Normalize(stored.value[i], d)], tid>>

(* Mutant: the catch block leaves in tasks what was parsed *)
loadTasksKeepsParsed(ts, tid, stored, d) ==
    IF stored.kind = "null" THEN <<ts, tid>>
    ELSE IF stored.kind # "array" THEN <<<<stored>>, tid>>
    ELSE LET loaded == [i \in 1..Len(stored.value) |->
                            Normalize(stored.value[i], d)]
         IN  <<loaded, IF Len(loaded) > 0 THEN MaxOf(Ids(loaded)) ELSE tid>>

(* Mutant: a load that finds no task sets the counter to 0 *)
loadTasksResetsCounter(ts, tid, stored, d) ==
    IF stored.kind = "null" THEN <<ts, 0>>
    ELSE IF stored.kind # "array" THEN <<<<>>, 0>>
    ELSE LET loaded == [i \in 1..Len(stored.value) |->
                            Normalize(stored.value[i], d)]
         IN  <<loaded, IF Len(loaded) > 0 THEN MaxOf(Ids(loaded)) ELSE 0>>

(* Mutant: the counter continues from the number of tasks loaded *)
loadTasksCountsTasks(ts, tid, stored, d) ==
    IF stored.kind = "null" THEN <<ts, tid>>
    ELSE IF stored.kind # "array" THEN <<<<>>, tid>>
    ELSE LET loaded == [i \in 1..Len(stored.value) |->
                            Normalize(stored.value[i], d)]
         IN  <<loaded, IF Len(loaded) > 0 THEN Len(loaded) ELSE tid>>

(* loadTasks: the new <<tasks, taskId>> *)
loadTasks(ts, tid, stored, d) ==
    IF stored.kind = "null" THEN <<ts, tid>>
    ELSE IF stored.kind # "array" THEN <<<<>>, tid>>
    ELSE LET loaded == [i \in 1..Len(stored.value) |->
                            Normalize(stored.value[i], d)]
         IN  <<loaded, IF Len(loaded) > 0 THEN MaxOf(Ids(loaded)) ELSE tid>>

(* Mutant: a failed write leaves the key without a value *)
saveTasksClearsOnFailure(ts, stored, quotaOk) ==
    IF quotaOk THEN JSONArray(JSONStringify(ts)) ELSE NoValue

(* Mutant: an empty collection is not written *)
saveTasksSkipsEmpty(ts, stored, quotaOk) ==
    IF quotaOk /\ ts # <<>> THEN JSONArray(JSONStringify(ts)) ELSE stored

(* saveTasks: the new stored value; setItem throws when the quota is exceeded *)
saveTasks(ts, stored, quotaOk) ==
    IF quotaOk THEN JSONArray(JSONStringify(ts)) ELSE stored

SaveResult(quotaOk) == IF quotaOk THEN "saved" ELSE "failed"

----------------------------------------------------------------------------
(* initApp's start of the periodic tick: setInterval(checkTimers, 1000)    *)
(* unless window.__taskTimerInterval already holds a handle. The result is *)
(* the new <<window.__taskTimerInterval, handles of the timers going>>.    *)

(* setInterval returns a positive handle that no timer going has *)
NewHandle(going) == Cardinality(going) + 1

(* Mutant: the tick is started without looking at the stored handle *)
startTickerUnguarded(handle, going) ==
    <<NewHandle(going), going \cup {NewHandle(going)}>>

startTicker(handle, going) ==
    IF ~Truthy(handle)
    THEN <<NewHandle(going), going \cup {NewHandle(going)}>>
    ELSE <<handle, going>>

(* The page after initApp has run at document ready *)
TickerStarted ==
    LET s == startTicker(Null, {})
    IN  taskTimerInterval = s[1] /\ intervals = s[2]

----------------------------------------------------------------------------
(* The outcome record of a handler *)

Out(op, id, text, err, changed, toasts, save) ==
    [op |-> op, id |-> id, text |-> text, err |-> err,
     changed |-> changed, toasts |-> toasts, save |-> save]

----------------------------------------------------------------------------
(* Initial state: the globals as declared, then initApp at document ready *)

Init ==
    /\ storage \in InitialStores
    /\ now = 0
    /\ date = 0
    /\ LET l == loadTasks(<<>>, 0, storage, date)
       IN  tasks = l[1] /\ taskId = l[2]
    /\ assigned = {}
    /\ TickerStarted
    /\ out = Out("initApp", 0, <<>>, "", FALSE, <<>>, "none")

----------------------------------------------------------------------------
(* addTask: the five validations in order, then createTask, push, saveTasks *)

(* Mutant: the minimum-length rule is missing *)
ValidateNoMinimum(trimmedText, ts) ==
    IF trimmedText = <<>> THEN "Empty"
    ELSE IF Len(trimmedText) > MaxLength THEN "TooLong"
    ELSE IF Len(ts) >= MAX_TASKS THEN "LimitReached"
    ELSE IF \E i \in 1..Len(ts) :
                ToLowerCase(ts[i].text) = ToLowerCase(trimmedText)
         THEN "Duplicate"
    ELSE ""

(* Mutant: the duplicate rule is checked before the task limit *)
ValidateDuplicateFirst(trimmedText, ts) ==
    IF trimmedText = <<>> THEN "Empty"
    ELSE IF Len(trimmedText) < MinLength THEN "TooShort"
    ELSE IF Len(trimmedText) > MaxLength THEN "TooLong"
    ELSE IF \E i \in 1..Len(ts) :
                ToLowerCase(ts[i].text) = ToLowerCase(trimmedText)
         THEN "Duplicate"
    ELSE IF Len(ts) >= MAX_TASKS THEN "LimitReached"
    ELSE ""

(* Mutant: the task limit is not checked *)
ValidateNoLimit(trimmedText, ts) ==
    IF trimmedText = <<>> THEN "Empty"
    ELSE IF Len(trimmedText) < MinLength THEN "TooShort"
    ELSE IF Len(trimmedText) > MaxLength THEN "TooLong"
    ELSE IF \E i \in 1..Len(ts) :
                ToLowerCase(ts[i].text) = ToLowerCase(trimmedText)
         THEN "Duplicate"
    ELSE ""

(* Mutant: the duplicate rule compares the texts as they are written *)
ValidateExactDuplicate(trimmedText, ts) ==
    IF trimmedText = <<>> THEN "Empty"
    ELSE IF Len(trimmedText) < MinLength THEN "TooShort"
    ELSE IF Len(trimmedText) > MaxLength THEN "TooLong"
    ELSE IF Len(ts) >= MAX_TASKS THEN "LimitReached"
    ELSE IF \E i \in 1..Len(ts) : ts[i].text = trimmedText
         THEN "Duplicate"
    ELSE ""

Validate(trimmedText, ts) ==
    IF trimmedText = <<>> THEN "Empty"
    ELSE IF Len(trimmedText) < MinLength THEN "TooShort"
    ELSE IF Len(trimmedText) > MaxLength THEN "TooLong"
    ELSE IF Len(ts) >= MAX_TASKS THEN "LimitReached"
    ELSE IF \E i \in 1..Len(ts) :
                ToLowerCase(ts[i].text) = ToLowerCase(trimmedText)
         THEN "Duplicate"
    ELSE ""

TimerSecondsOf(minutes) ==
    IF minutes > 0 THEN minutes * SecondsPerMinute ELSE 0

addTask(raw, minutes, quotaOk) ==
    LET trimmedText == Trim(raw)
        err == Validate(trimmedText, tasks)
        task == createTask(trimmedText, TimerSecondsOf(minutes), taskId, now,
                           date)
    IN  IF err # ""
        THEN /\ UNCHANGED <<tasks, taskId, storage, now, assigned, ticker, date>>
             /\ out' = Out("addTask", 0, trimmedText, err, FALSE, <<>>, "none")
        ELSE /\ tasks' = Append(tasks, task)
             /\ taskId' = task.id
             /\ storage' = saveTasks(tasks', storage, quotaOk)
             /\ assigned' = assigned \cup {task.id}
             /\ out' = Out("addTask", task.id, trimmedText, "", TRUE, <<>>,
                           SaveResult(quotaOk))
             /\ UNCHANGED <<now, ticker, date>>

----------------------------------------------------------------------------
(* deleteTask, clearCompleted *)

(* Mutant: the filter also drops the tasks created before the deleted one *)
WithoutUpTo(ts, id) == SelectSeq(ts, LAMBDA t : t.id > id)

WithoutId(ts, id) == SelectSeq(ts, LAMBDA t : t.id # id)

deleteTask(id, quotaOk) ==
    /\ tasks' = WithoutId(tasks, id)
    /\ storage' = saveTasks(tasks', storage, quotaOk)
    /\ out' = Out("deleteTask", id, <<>>, "", tasks' # tasks, <<>>,
                  SaveResult(quotaOk))
    /\ UNCHANGED <<taskId, now, assigned, ticker, date>>

(* Mutant: clearing also removes the tasks whose timer expired *)
NotCompletedNorIncomplete(ts) ==
    SelectSeq(ts, LAMBDA t : ~t.completed /\ ~t.incomplete)

NotCompleted(ts) == SelectSeq(ts, LAMBDA t : ~t.completed)

clearCompleted(quotaOk) ==
    /\ tasks' = NotCompleted(tasks)
    /\ storage' = saveTasks(tasks', storage, quotaOk)
    /\ out' = Out("clearCompleted", 0, <<>>, "", tasks' # tasks, <<>>,
                  SaveResult(quotaOk))
    /\ UNCHANGED <<taskId, now, assigned, ticker, date>>

----------------------------------------------------------------------------
(* toggleTask *)

(* Mutant: completing a task leaves its timer running *)
ToggledKeepsTimer(t) ==
    IF ~t.completed
    THEN [t EXCEPT !.completed = TRUE,
                   !.incomplete = FALSE,
                   !.timerRemainingSeconds = 0]
    ELSE [t EXCEPT !.completed = FALSE]

(* Mutant: making a task active again refills its timer *)
ToggledRefills(t) ==
    IF ~t.completed
    THEN [t EXCEPT !.completed = TRUE,
                   !.incomplete = FALSE,
                   !.timerEnd = Null,
                   !.timerRemainingSeconds = 0]
    ELSE [t EXCEPT !.completed = FALSE,
                   !.timerRemainingSeconds = t.timerSeconds]

(* Mutant: the checkbox only ever completes a task *)
ToggledOnlyCompletes(t) ==
    [t EXCEPT !.completed = TRUE,
              !.incomplete = FALSE,
              !.timerEnd = Null,
              !.timerRemainingSeconds = 0]

(* Mutant: completing a task stops its timer but leaves the expiry flag *)
ToggledKeepsIncomplete(t) ==
    IF ~t.completed
    THEN [t EXCEPT !.completed = TRUE,
                   !.timerEnd = Null,
                   !.timerRemainingSeconds = 0]
    ELSE [t EXCEPT !.completed = FALSE]

Toggled(t) ==
    IF ~t.completed
    THEN [t EXCEPT !.completed = TRUE,
                   !.incomplete = FALSE,
                   !.timerEnd = Null,
                   !.timerRemainingSeconds = 0]
    ELSE [t EXCEPT !.completed = FALSE]

toggleTask(id, quotaOk) ==
    LET i == Find(tasks, id)
    IN  IF i = 0
        THEN /\ UNCHANGED <<tasks, taskId, storage, now, assigned, ticker, date>>
             /\ out' = Out("toggleTask", id, <<>>, "", FALSE, <<>>, "none")
        ELSE /\ tasks' = [tasks EXCEPT ![i] = Toggled(tasks[i])]
             /\ storage' = saveTasks(tasks', storage, quotaOk)
             /\ out' = Out("toggleTask", id, <<>>, "", TRUE, <<>>,
                           SaveResult(quotaOk))
             /\ UNCHANGED <<taskId, now, assigned, ticker, date>>

----------------------------------------------------------------------------
(* startTimer, pauseTimer, resetTimer *)

StartBlocked(t) == t.completed \/ t.incomplete \/ Truthy(t.timerEnd)

(* Mutant: a timer that ran out is not refilled when it is started *)
RefilledNever(t) == t

Refilled(t) ==
    IF ~Truthy(t.timerRemainingSeconds) /\ Truthy(t.timerSeconds)
    THEN [t EXCEPT !.timerRemainingSeconds = t.timerSeconds]
    ELSE t

(* Mutant: the timer is started whether or not any time is left *)
StartedWithoutTime(t, clock) ==
    LET r == Refilled(t)
    IN  [r EXCEPT !.timerEnd = clock + r.timerRemainingSeconds * MsPerSecond]

Started(t, clock) ==
    LET r == Refilled(t)
    IN  IF r.timerRemainingSeconds > 0
        THEN [r EXCEPT !.timerEnd = clock + r.timerRemainingSeconds * MsPerSecond]
        ELSE r

startTimer(id, quotaOk) ==
    LET i == Find(tasks, id)
    IN  IF i = 0 \/ (i # 0 /\ StartBlocked(tasks[i]))
        THEN /\ UNCHANGED <<tasks, taskId, storage, now, assigned, ticker, date>>
             /\ out' = Out("startTimer", id, <<>>, "", FALSE, <<>>, "none")
        ELSE LET saves == Refilled(tasks[i]).timerRemainingSeconds > 0
             IN  /\ tasks' = [tasks EXCEPT ![i] = Started(tasks[i], now)]
                 /\ storage' = IF saves THEN saveTasks(tasks', storage, quotaOk)
                               ELSE storage
                 /\ out' = Out("startTimer", id, <<>>, "", saves, <<>>,
                               IF saves THEN SaveResult(quotaOk) ELSE "none")
                 /\ UNCHANGED <<taskId, now, assigned, ticker, date>>

(* Mutant: the remaining time is not clamped at 0 *)
RemainingAtUnclamped(t, clock) == MathRound(t.timerEnd - clock, MsPerSecond)

(* Mutant: the remaining time is truncated instead of rounded *)
RemainingAtTruncated(t, clock) ==
    MathMax(0, (t.timerEnd - clock) \div MsPerSecond)

RemainingAt(t, clock) ==
    MathMax(0, MathRound(t.timerEnd - clock, MsPerSecond))

Paused(t, clock) ==
    [t EXCEPT !.timerRemainingSeconds = RemainingAt(t, clock),
              !.timerEnd = Null]

PauseBlocked(t) == t.completed \/ t.incomplete \/ ~Truthy(t.timerEnd)

pauseTimer(id, quotaOk) ==
    LET i == Find(tasks, id)
    IN  IF i = 0 \/ (i # 0 /\ PauseBlocked(tasks[i]))
        THEN /\ UNCHANGED <<tasks, taskId, storage, now, assigned, ticker, date>>
             /\ out' = Out("pauseTimer", id, <<>>, "", FALSE, <<>>, "none")
        ELSE /\ tasks' = [tasks EXCEPT ![i] = Paused(tasks[i], now)]
             /\ storage' = saveTasks(tasks', storage, quotaOk)
             /\ out' = Out("pauseTimer", id, <<>>, "", TRUE, <<>>,
                           SaveResult(quotaOk))
             /\ UNCHANGED <<taskId, now, assigned, ticker, date>>

(* Mutant: a reset leaves the incomplete flag as it is *)
ResetKeepsIncomplete(t) ==
    [t EXCEPT !.timerRemainingSeconds =
                    IF Truthy(t.timerSeconds) THEN t.timerSeconds ELSE 0,
              !.timerEnd = Null]

Reset(t) ==
    [t EXCEPT !.timerRemainingSeconds =
                    IF Truthy(t.timerSeconds) THEN t.timerSeconds ELSE 0,
              !.timerEnd = Null,
              !.incomplete = FALSE]

resetTimer(id, quotaOk) ==
    LET i == Find(tasks, id)
    IN  IF i = 0
        THEN /\ UNCHANGED <<tasks, taskId, storage, now, assigned, ticker, date>>
             /\ out' = Out("resetTimer", id, <<>>, "", FALSE, <<>>, "none")
        ELSE /\ tasks' = [tasks EXCEPT ![i] = Reset(tasks[i])]
             /\ storage' = saveTasks(tasks', storage, quotaOk)
             /\ out' = Out("resetTimer", id, <<>>, "", TRUE, <<>>,
                           SaveResult(quotaOk))
             /\ UNCHANGED <<taskId, now, assigned, ticker, date>>

----------------------------------------------------------------------------
(* checkTimers: the periodic tick *)

Watched(t) == Truthy(t.timerEnd) /\ ~t.completed /\ ~t.incomplete

(* Mutant: the deadline itself does not count as expired *)
ExpiresStrict(t, clock) == Watched(t) /\ clock > t.timerEnd

Expires(t, clock) == Watched(t) /\ clock >= t.timerEnd

(* Mutant: an expired task keeps its timerEnd *)
ExpiredKeepsEnd(t) ==
    [t EXCEPT !.incomplete = TRUE,
              !.timerRemainingSeconds = 0]

Expired(t) ==
    [t EXCEPT !.incomplete = TRUE,
              !.timerEnd = Null,
              !.timerRemainingSeconds = 0]

(* Mutant: the loop over the tasks stops one short of the last *)
CheckedAllButLast(ts, clock) ==
    [i \in 1..Len(ts) |->
        IF i < Len(ts) /\ Expires(ts[i], clock) THEN Expired(ts[i]) ELSE ts[i]]

Checked(ts, clock) ==
    [i \in 1..Len(ts) |->
        IF Expires(ts[i], clock) THEN Expired(ts[i]) ELSE ts[i]]

(* Mutant: the toast is shown for every watched task, expired or not *)
RECURSIVE ToastsOfWatched(_, _)
ToastsOfWatched(ts, clock) ==
    IF ts = <<>> THEN <<>>
    ELSE (IF Watched(Head(ts)) THEN <<Head(ts).text>> ELSE <<>>)
         \o ToastsOfWatched(Tail(ts), clock)

RECURSIVE ToastsOf(_, _)
ToastsOf(ts, clock) ==
    IF ts = <<>> THEN <<>>
    ELSE (IF Expires(Head(ts), clock) THEN <<Head(ts).text>> ELSE <<>>)
         \o ToastsOf(Tail(ts), clock)

checkTimers(quotaOk) ==
    LET changed == \E i \in 1..Len(tasks) : Expires(tasks[i], now)
    IN  /\ tasks' = Checked(tasks, now)
        /\ storage' = IF changed THEN saveTasks(tasks', storage, quotaOk)
                      ELSE storage
        /\ out' = Out("checkTimers", 0, <<>>, "", changed, ToastsOf(tasks, now),
                      IF changed THEN SaveResult(quotaOk) ELSE "none")
        /\ UNCHANGED <<taskId, now, assigned, ticker, date>>

----------------------------------------------------------------------------
(* Page reload: the globals are declared afresh and initApp calls loadTasks *)

initApp ==
    LET l == loadTasks(<<>>, 0, storage, date)
        s == startTicker(Null, {})
    IN  /\ tasks' = l[1]
        /\ taskId' = l[2]
        /\ taskTimerInterval' = s[1]
        /\ intervals' = s[2]
        /\ out' = Out("initApp", 0, <<>>, "", FALSE, <<>>, "none")
        /\ UNCHANGED <<storage, now, assigned, date>>

(* initApp called again on the page that is already running: loadTasks     *)
(* starts from the tasks and the counter the page has                      *)
initAppAgain ==
    LET l == loadTasks(tasks, taskId, storage, date)
        s == startTicker(taskTimerInterval, intervals)
    IN  /\ tasks' = l[1]
        /\ taskId' = l[2]
        /\ taskTimerInterval' = s[1]
        /\ intervals' = s[2]
        /\ out' = Out("initAppAgain", 0, <<>>, "", FALSE, <<>>, "none")
        /\ UNCHANGED <<storage, now, assigned, date>>

(* The wall clock moves on, and new Date() with it *)
AdvanceDated(t) ==
    /\ t > now
    /\ now' = t
    /\ date' = t
    /\ out' = Out("advance", 0, <<>>, "", FALSE, <<>>, "none")
    /\ UNCHANGED <<tasks, taskId, storage, assigned, ticker>>

(* The wall clock moves on *)
Advance(t) ==
    /\ t > now
    /\ now' = t
    /\ out' = Out("advance", 0, <<>>, "", FALSE, <<>>, "none")
    /\ UNCHANGED <<tasks, taskId, storage, assigned, ticker, date>>

----------------------------------------------------------------------------

(* getFilteredTasks and getStats: what the page shows *)

Filters == {"all", "active", "completed", "incomplete", "archived"}

(* Mutant: the active view as it was before the timers, !task.completed *)
getFilteredTasksActiveOpen(currentFilter, ts) ==
    IF currentFilter = "completed"
    THEN SelectSeq(ts, LAMBDA t : t.completed)
    ELSE IF currentFilter = "active"
    THEN SelectSeq(ts, LAMBDA t : ~t.completed)
    ELSE IF currentFilter = "incomplete"
    THEN SelectSeq(ts, LAMBDA t : t.incomplete = TRUE)
    ELSE ts

getFilteredTasks(currentFilter, ts) ==
    IF currentFilter = "completed"
    THEN SelectSeq(ts, LAMBDA t : t.completed)
    ELSE IF currentFilter = "active"
    THEN SelectSeq(ts, LAMBDA t : ~t.completed /\ ~t.incomplete)
    ELSE IF currentFilter = "incomplete"
    THEN SelectSeq(ts, LAMBDA t : t.incomplete = TRUE)
    ELSE ts

(* Mutant: the remaining count leaves out the expired tasks *)
getStatsRemainingActive(ts) ==
    LET total == Len(ts)
        completed == Len(SelectSeq(ts, LAMBDA t : t.completed))
    IN  [total |-> total, completed |-> completed,
         remaining |-> Len(SelectSeq(ts, LAMBDA t :
                                ~t.completed /\ ~t.incomplete))]

getStats(ts) ==
    LET total == Len(ts)
        completed == Len(SelectSeq(ts, LAMBDA t : t.completed))
    IN  [total |-> total, completed |-> completed,
         remaining |-> total - completed]

(* renderTaskList: the timer display of one task, the seconds that         *)
(* formatTime is given or the word Expired; no display without a duration  *)

NoDisplay == [kind |-> "none"]

ExpiredDisplay == [kind |-> "expired"]

TimeDisplay(s) == [kind |-> "time", seconds |-> s]

(* Mutant: a stopped timer shows its remaining time even when that is 0 *)
timerHtmlNoFallback(task, clock) ==
    IF ~(Truthy(task.timerSeconds) /\ task.timerSeconds > 0) THEN NoDisplay
    ELSE IF task.incomplete THEN ExpiredDisplay
    ELSE IF Truthy(task.timerEnd)
    THEN TimeDisplay(MathMax(0, MathRound(task.timerEnd - clock, MsPerSecond)))
    ELSE TimeDisplay(task.timerRemainingSeconds)

timerHtml(task, clock) ==
    IF ~(Truthy(task.timerSeconds) /\ task.timerSeconds > 0) THEN NoDisplay
    ELSE IF task.incomplete THEN ExpiredDisplay
    ELSE IF Truthy(task.timerEnd)
    THEN TimeDisplay(MathMax(0, MathRound(task.timerEnd - clock, MsPerSecond)))
    ELSE TimeDisplay(IF Truthy(task.timerRemainingSeconds)
                     THEN task.timerRemainingSeconds
                     ELSE task.timerSeconds)

----------------------------------------------------------------------------

IdInputs == 1..MaxTaskId

QuotaOutcomes == {TRUE}

Next ==
    \/ \E raw \in RawTexts, m \in TimerInputs, q \in QuotaOutcomes :
            taskId < MaxTaskId /\ addTask(raw, m, q)
    \/ \E id \in IdInputs, q \in QuotaOutcomes : deleteTask(id, q)
    \/ \E q \in QuotaOutcomes : clearCompleted(q)
    \/ \E id \in IdInputs, q \in QuotaOutcomes : pauseTimer(id, q)
    \/ \E id \in IdInputs, q \in QuotaOutcomes : startTimer(id, q)
    \/ \E id \in IdInputs, q \in QuotaOutcomes : resetTimer(id, q)
    \/ \E id \in IdInputs, q \in QuotaOutcomes : toggleTask(id, q)
    \/ \E q \in QuotaOutcomes : checkTimers(q)
    \/ initApp
    \/ \E t \in Instants : Advance(t)

Spec == Init /\ [][Next]_vars

----------------------------------------------------------------------------
(* The same handlers on a collection at the task limit: the store holds    *)
(* MAX_TASKS - 1 or MAX_TASKS tasks that earlier sessions saved.           *)

Digits == <<"0", "1", "2", "3", "4", "5", "6", "7", "8", "9">>

(* The text of the i-th saved task: "a" and the three digits of i *)
SavedText(i) ==
    <<"a", Digits[(i \div 100) + 1], Digits[((i \div 10) % 10) + 1],
      Digits[(i % 10) + 1]>>

SavedTasks(n) == [i \in 1..n |-> createTask(SavedText(i), 0, i - 1, 0, 0)]

LimitStores ==
    { JSONArray(JSONStringify(SavedTasks(MAX_TASKS - 1))),
      JSONArray(JSONStringify(SavedTasks(MAX_TASKS))) }

(* Inputs at the limit: an empty, a too-short and a too-long text, the     *)
(* text of the first saved task in capitals, and two new texts.            *)
LimitTexts ==
    { <<" ">>,
      <<"a", "b">>,
      Long201,
      <<"A", "0", "0", "1">>,
      <<"x", "y", "z">>,
      <<" ", "n", "e", "w">> }

LimitTimerInputs == {0}

LimitIds == {1, MAX_TASKS}

InitLimit ==
    /\ storage \in LimitStores
    /\ now = 0
    /\ date = 0
    /\ LET l == loadTasks(<<>>, 0, storage, date)
       IN  tasks = l[1] /\ taskId = l[2]
    /\ assigned = {}
    /\ TickerStarted
    /\ out = Out("initApp", 0, <<>>, "", FALSE, <<>>, "none")

NextLimit ==
    \/ \E raw \in LimitTexts, m \in LimitTimerInputs, q \in QuotaOutcomes :
            taskId < MAX_TASKS + MaxLimitAdds /\ addTask(raw, m, q)
    \/ \E id \in LimitIds, q \in QuotaOutcomes : deleteTask(id, q)
    \/ \E id \in LimitIds, q \in QuotaOutcomes : toggleTask(id, q)
    \/ \E q \in QuotaOutcomes : clearCompleted(q)
    \/ initApp

SpecLimit == InitLimit /\ [][NextLimit]_vars

----------------------------------------------------------------------------
(* Loading what other versions of the page stored: records that lack any   *)
(* of the fields the normalisation of loadTasks supplies.                  *)

OptionalFields ==
    {"completed", "timerSeconds", "timerRemainingSeconds", "timerEnd",
     "incomplete"}

(* A task as saved when paused at 0, running, expired and completed *)
StoredShapes(i, text) ==
    { [id |-> i, text |-> text, completed |-> FALSE, timerSeconds |-> 60,
       timerRemainingSeconds |-> 0, timerEnd |-> Null, incomplete |-> FALSE],
      [id |-> i, text |-> text, completed |-> FALSE, timerSeconds |-> 60,
       timerRemainingSeconds |-> 60, timerEnd |-> 60000,
       incomplete |-> FALSE],
      [id |-> i, text |-> text, completed |-> FALSE, timerSeconds |-> 60,
       timerRemainingSeconds |-> 0, timerEnd |-> Null, incomplete |-> TRUE],
      [id |-> i, text |-> text, completed |-> TRUE, timerSeconds |-> 0,
       timerRemainingSeconds |-> 0, timerEnd |-> Null, incomplete |-> FALSE] }

Lacking(r, fields) == [f \in DOMAIN r \ fields |-> r[f]]

PartialRecords ==
    {Lacking(r, fields) : r \in StoredShapes(1, <<"a", "b", "c">>),
                          fields \in SUBSET OptionalFields}

LoadStores ==
    {NoValue, Corrupt, JSONArray(<<>>)}
        \cup {JSONArray(<<r>>) : r \in PartialRecords}

LoadTexts == { <<"a", "b">>, <<"a", "b", "c">>, <<"x", "y", "z">> }

LoadTimerInputs == {0, 1}

LoadIds == 1..MaxLoadId

InitLoad ==
    /\ storage \in LoadStores
    /\ now = 0
    /\ date = 0
    /\ LET l == loadTasks(<<>>, 0, storage, date)
       IN  tasks = l[1] /\ taskId = l[2]
    /\ assigned = {}
    /\ TickerStarted
    /\ out = Out("initApp", 0, <<>>, "", FALSE, <<>>, "none")

NextLoad ==
    \/ \E raw \in LoadTexts, m \in LoadTimerInputs, q \in QuotaOutcomes :
            taskId < MaxLoadId /\ addTask(raw, m, q)
    \/ \E id \in LoadIds, q \in QuotaOutcomes : deleteTask(id, q)
    \/ initApp
    \/ initAppAgain

SpecLoad == InitLoad /\ [][NextLoad]_vars

----------------------------------------------------------------------------
(* The handlers with a store that may be full: setItem throws in saveTasks *)
(* whenever the quota is exceeded.                                         *)

(* The creation stamps followed: new Date() reads the clock that           *)
(* Date.now() reads. The store holds nothing or a task an earlier session  *)
(* saved while its timer ran.                                              *)

StampStores ==
    { NoValue,
      JSONArray(JSONStringify(<<createTask(<<"a", "b", "c">>, 60, 0, 0, 0)>>)) }

StampTexts == { <<"a", "b">>, <<"a", "b", "c">>, <<"x", "y", "z">> }

StampTimerInputs == {0, 1}

StampIds == 1..MaxStampId

StampInstants == {29500, 60000}

InitStamp ==
    /\ storage \in StampStores
    /\ now = 0
    /\ date = 0
    /\ LET l == loadTasks(<<>>, 0, storage, date)
       IN  tasks = l[1] /\ taskId = l[2]
    /\ assigned = {}
    /\ TickerStarted
    /\ out = Out("initApp", 0, <<>>, "", FALSE, <<>>, "none")

NextStamp ==
    \/ \E raw \in StampTexts, m \in StampTimerInputs :
            taskId < MaxStampId /\ addTask(raw, m, TRUE)
    \/ \E id \in StampIds : deleteTask(id, TRUE)
    \/ clearCompleted(TRUE)
    \/ \E id \in StampIds : pauseTimer(id, TRUE)
    \/ \E id \in StampIds : startTimer(id, TRUE)
    \/ \E id \in StampIds : resetTimer(id, TRUE)
    \/ \E id \in StampIds : toggleTask(id, TRUE)
    \/ checkTimers(TRUE)
    \/ initApp
    \/ \E t \in StampInstants : AdvanceDated(t)

SpecStamp == InitStamp /\ [][NextStamp]_vars

----------------------------------------------------------------------------
(* The page left open: setInterval calls checkTimers every second for as   *)
(* long as the page lives and the wall clock goes on, whatever the user    *)
(* does in between. The clock of the model ends at LiveEnd, so a timer is  *)
(* only set going when its deadline lies within that horizon.              *)

LiveEnd == 120000

LiveInstants == {60000, LiveEnd}

LiveTexts == { <<"a", "b">>, <<"a", "b", "c">>, <<"x", "y", "z">> }

LiveTimerInputs == {0, 1}

LiveIds == 1..MaxLiveId

WithinHorizon(seconds) == now + seconds * MsPerSecond <= LiveEnd

InitLive ==
    /\ storage = NoValue
    /\ now = 0
    /\ date = 0
    /\ LET l == loadTasks(<<>>, 0, storage, date)
       IN  tasks = l[1] /\ taskId = l[2]
    /\ assigned = {}
    /\ TickerStarted
    /\ out = Out("initApp", 0, <<>>, "", FALSE, <<>>, "none")

Tick == checkTimers(TRUE)

ClockAdvances == \E t \in LiveInstants : Advance(t)

NextLive ==
    \/ \E raw \in LiveTexts, m \in LiveTimerInputs :
            /\ taskId < MaxLiveId
            /\ WithinHorizon(TimerSecondsOf(m))
            /\ addTask(raw, m, TRUE)
    \/ \E id \in LiveIds : deleteTask(id, TRUE)
    \/ clearCompleted(TRUE)
    \/ \E id \in LiveIds : pauseTimer(id, TRUE)
    \/ \E id \in LiveIds :
            /\ \A i \in 1..Len(tasks) :
                    tasks[i].id = id =>
                        WithinHorizon(Refilled(tasks[i]).timerRemainingSeconds)
            /\ startTimer(id, TRUE)
    \/ \E id \in LiveIds : resetTimer(id, TRUE)
    \/ \E id \in LiveIds : toggleTask(id, TRUE)
    \/ Tick
    \/ initApp
    \/ ClockAdvances

SpecLive ==
    /\ InitLive
    /\ [][NextLive]_vars
    /\ WF_vars(Tick)
    /\ WF_vars(ClockAdvances)

----------------------------------------------------------------------------
(* Saves that may fail: localStorage.setItem throws when the quota is hit *)

QuotaMayFail == {TRUE, FALSE}

QuotaTexts == { <<"a", "b">>, <<"a", "b", "c">>, <<"x", "y", "z">> }

QuotaTimerInputs == {0, 1}

QuotaIds == 1..MaxQuotaId

QuotaInstants == {60000}

InitQuota ==
    /\ storage = NoValue
    /\ now = 0
    /\ date = 0
    /\ LET l == loadTasks(<<>>, 0, storage, date)
       IN  tasks = l[1] /\ taskId = l[2]
    /\ assigned = {}
    /\ TickerStarted
    /\ out = Out("initApp", 0, <<>>, "", FALSE, <<>>, "none")

NextQuota ==
    \/ \E raw \in QuotaTexts, m \in QuotaTimerInputs, q \in QuotaMayFail :
            taskId < MaxQuotaId /\ addTask(raw, m, q)
    \/ \E id \in QuotaIds, q \in QuotaMayFail : deleteTask(id, q)
    \/ \E q \in QuotaMayFail : clearCompleted(q)
    \/ \E id \in QuotaIds, q \in QuotaMayFail : pauseTimer(id, q)
    \/ \E id \in QuotaIds, q \in QuotaMayFail : startTimer(id, q)
    \/ \E id \in QuotaIds, q \in QuotaMayFail : resetTimer(id, q)
    \/ \E id \in QuotaIds, q \in QuotaMayFail : toggleTask(id, q)
    \/ \E q \in QuotaMayFail : checkTimers(q)
    \/ initApp
    \/ \E t \in QuotaInstants : Advance(t)

SpecQuota == InitQuota /\ [][NextQuota]_vars

----------------------------------------------------------------------------
(* Vocabulary of the properties *)

TaskOf(ts, id) == ts[Find(ts, id)]

Last(ts) == ts[Len(ts)]

AddSucceeded == out'.op = "addTask" /\ out'.err = ""

(* The timer of t is running, t is not completed and the clock has reached *)
(* its timerEnd.                                                           *)
DeadlineReached(t, clock) ==
    /\ t.timerEnd # Null
    /\ ~t.completed
    /\ ~t.incomplete
    /\ clock >= t.timerEnd

(* The task as checkExpiry is to leave it once its timer has expired *)
MarkedIncomplete(t) ==
    [t EXCEPT !.incomplete = TRUE, !.timerEnd = Null,
              !.timerRemainingSeconds = 0]

(* The length of the text between its first and last non-blank character *)
TrimmedLength(raw) ==
    LET Solid(i) == raw[i] \notin Whitespace
        N == Len(raw)
    IN  IF ~\E i \in 1..N : Solid(i) THEN 0
        ELSE LET first == CHOOSE i \in 1..N :
                              Solid(i) /\ \A j \in 1..(i - 1) : ~Solid(j)
                 back  == CHOOSE k \in 0..(N - 1) :
                              Solid(N - k) /\ \A j \in 0..(k - 1) : ~Solid(N - j)
             IN  (N - back) - first + 1

ExpectedError(raw) ==
    LET n == TrimmedLength(raw)
    IN  IF n = 0 THEN "Empty"
        ELSE IF n < 3 THEN "TooShort"
        ELSE IF n > 200 THEN "TooLong"
        ELSE ""

(* Two texts that differ at most in the case of their letters *)
SameIgnoringCase(a, b) ==
    /\ Len(a) = Len(b)
    /\ \A k \in 1..Len(a) : LowerChar(a[k]) = LowerChar(b[k])

HasTextLike(ts, text) ==
    \E i \in 1..Len(ts) : SameIgnoringCase(ts[i].text, text)

(* A text with its capitals replaced by small letters *)
Folded(a) == [k \in 1..Len(a) |-> LowerChar(a[k])]

(* As many different folded texts as there are tasks *)
NoLikeTexts(ts) ==
    Cardinality({Folded(ts[i].text) : i \in 1..Len(ts)}) = Len(ts)

(* The rules of add, in the order in which they are to be checked *)
RuleOrder == <<"Empty", "TooShort", "TooLong", "LimitReached", "Duplicate">>

RuleFails(rule, raw, ts) ==
    CASE rule = "Empty"        -> TrimmedLength(raw) = 0
      [] rule = "TooShort"     -> TrimmedLength(raw) < 3
      [] rule = "TooLong"      -> TrimmedLength(raw) > 200
      [] rule = "LimitReached" -> Len(ts) >= 100
      [] rule = "Duplicate"    -> HasTextLike(ts, Trim(raw))

FirstFailing(raw, ts) ==
    LET failing == {k \in DOMAIN RuleOrder : RuleFails(RuleOrder[k], raw, ts)}
    IN  IF failing = {} THEN ""
        ELSE RuleOrder[CHOOSE k \in failing : \A j \in failing : k <= j]

(* The step changed at most the task with this id, which it left as `new` *)
OnlyTaskBecomes(id, new) ==
    /\ Len(tasks') = Len(tasks)
    /\ \A i \in 1..Len(tasks) :
            tasks'[i] = IF tasks[i].id = id THEN new ELSE tasks[i]

(* x / 1000 rounded to the nearest integer, halves upwards *)
RoundedSeconds(x) ==
    CHOOSE r \in ((x \div 1000) - 1)..((x \div 1000) + 1) :
        2 * 1000 * r <= 2 * x + 1000 /\ 2 * x + 1000 < 2 * 1000 * (r + 1)

(* start(task, now) as specified *)
StartOf(t, clock) ==
    IF t.completed \/ t.incomplete \/ t.timerEnd # Null THEN t
    ELSE LET remaining == IF t.timerRemainingSeconds = 0 /\ t.timerSeconds > 0
                          THEN t.timerSeconds
                          ELSE t.timerRemainingSeconds
         IN  [t EXCEPT !.timerRemainingSeconds = remaining,
                       !.timerEnd = IF remaining > 0
                                    THEN clock + remaining * 1000
                                    ELSE Null]

(* pause(task, now) as specified *)
PauseOf(t, clock) ==
    IF t.completed \/ t.incomplete \/ t.timerEnd = Null THEN t
    ELSE LET rounded == RoundedSeconds(t.timerEnd - clock)
         IN  [t EXCEPT !.timerRemainingSeconds =
                            IF rounded > 0 THEN rounded ELSE 0,
                       !.timerEnd = Null]

(* The positions of the tasks of ts that satisfy P, and the k-th of them *)
Positions(ts, P(_)) == {i \in 1..Len(ts) : P(ts[i])}

Kth(S, k) == CHOOSE i \in S : Cardinality({j \in S : j < i}) = k - 1

(* sub holds exactly the tasks of ts that satisfy P, in the order of ts *)
IsSelection(sub, ts, P(_)) ==
    /\ Len(sub) = Cardinality(Positions(ts, P))
    /\ \A k \in 1..Len(sub) : sub[k] = ts[Kth(Positions(ts, P), k)]

(* The value of field f of the stored record r, d when r lacks it *)
Field(r, f, d) == IF f \in DOMAIN r THEN r[f] ELSE d

(* What the step's handler is to have done to the tasks in memory *)
MutationApplied ==
    LET id == out'.id
        t == TaskOf(tasks, id)
    IN  CASE out'.op = "addTask" ->
                /\ Len(tasks') = Len(tasks) + 1
                /\ SubSeq(tasks', 1, Len(tasks)) = tasks
                /\ Last(tasks').id = taskId + 1
                /\ Last(tasks').text = out'.text
                /\ taskId' = taskId + 1
          [] out'.op = "deleteTask" ->
                IsSelection(tasks', tasks, LAMBDA u : u.id # id)
          [] out'.op = "clearCompleted" ->
                IsSelection(tasks', tasks, LAMBDA u : ~u.completed)
          [] out'.op = "toggleTask" ->
                /\ TaskOf(tasks', id).completed = ~t.completed
                /\ t.completed \/ TaskOf(tasks', id).timerEnd = Null
          [] out'.op = "startTimer" ->
                /\ OnlyTaskBecomes(id, StartOf(t, now))
                /\ TaskOf(tasks', id).timerEnd # Null
          [] out'.op = "pauseTimer" ->
                /\ OnlyTaskBecomes(id, PauseOf(t, now))
                /\ TaskOf(tasks', id).timerEnd = Null
          [] out'.op = "resetTimer" ->
                /\ TaskOf(tasks', id).timerRemainingSeconds = t.timerSeconds
                /\ TaskOf(tasks', id).timerEnd = Null
                /\ ~TaskOf(tasks', id).incomplete
          [] out'.op = "checkTimers" ->
                /\ Len(tasks') = Len(tasks)
                /\ \A i \in 1..Len(tasks) :
                        tasks'[i] = IF DeadlineReached(tasks[i], now)
                                    THEN MarkedIncomplete(tasks[i])
                                    ELSE tasks[i]
                /\ \E i \in 1..Len(tasks') : tasks'[i] # tasks[i]

(* The stored copy holds the tasks in memory: the array of all of them, or *)
(* nothing yet while there are none                                        *)
InSync(stored, ts) ==
    \/ stored = JSONArray(JSONStringify(ts))
    \/ stored.kind = "null" /\ ts = <<>>

Operations ==
    {"addTask", "deleteTask", "toggleTask", "clearCompleted", "startTimer",
     "pauseTimer", "resetTimer", "checkTimers"}

(* The positions of tasks' whose incomplete flag went from false to true *)
NewlyIncomplete ==
    {i \in 1..Len(tasks') :
        /\ tasks'[i].incomplete
        /\ tasks'[i].id \in Ids(tasks)
        /\ ~TaskOf(tasks, tasks'[i].id).incomplete}

----------------------------------------------------------------------------
(* C1 as stated: every successful add returns an id strictly greater than  *)
(* every id any earlier add assigned, ids of deleted tasks included, also  *)
(* after a load.                                                           *)
C1_IdAboveEveryAssigned ==
    [][AddSucceeded => \A i \in assigned : Last(tasks').id > i]_vars

(* C1 amended: every successful add returns the incremented counter, an id *)
(* strictly greater than the counter before and than the id of every task  *)
(* in the collection; the counter bounds the ids in the collection and no  *)
(* step but a load lowers it, so the id is above every id assigned since   *)
(* the last load.                                                          *)
C1_IdAboveSession ==
    [][/\ AddSucceeded =>
            /\ Len(tasks') = Len(tasks) + 1
            /\ Last(tasks').id = taskId'
            /\ taskId' > taskId
            /\ \A i \in Ids(tasks) : Last(tasks').id > i
       /\ out'.op # "initApp" => taskId' >= taskId
       /\ \A i \in Ids(tasks') : i <= taskId']_vars

(* An add after a load whose id is below one handed out before the load *)
C1_Witness ==
    /\ out.op = "addTask"
    /\ out.err = ""
    /\ \E i \in assigned : i > Last(tasks).id

(* C2: the ids of the tasks in the collection are positive integers and    *)
(* pairwise distinct in every reachable state, also after a reload has     *)
(* recomputed the counter.                                                 *)
C2_IdsPositiveDistinct ==
    /\ \A i \in 1..Len(tasks) : tasks[i].id \in Nat /\ tasks[i].id > 0
    /\ \A i, j \in 1..Len(tasks) : i # j => tasks[i].id # tasks[j].id

(* A task loaded from the store next to one added after that load *)
C2_Witness ==
    /\ out.op = "addTask"
    /\ out.err = ""
    /\ Len(tasks) = 2
    /\ tasks[1].completed
    /\ tasks[1].id \notin assigned
    /\ tasks[2].id \in assigned

(* C3 as stated: a task whose deadline is reached while its timer runs and *)
(* it is not completed ends up incomplete whatever runs next (it stays due *)
(* until it is incomplete), and incomplete turns true in no other case.    *)
C3_DeadlineAlwaysMarksIncomplete ==
    [][/\ \A i \in 1..Len(tasks) :
            (DeadlineReached(tasks[i], now) /\ tasks[i].id \in Ids(tasks'))
            => \/ TaskOf(tasks', tasks[i].id).incomplete
               \/ DeadlineReached(TaskOf(tasks', tasks[i].id), now')
       /\ \A j \in NewlyIncomplete :
            DeadlineReached(TaskOf(tasks, tasks'[j].id), now)]_vars

(* C4 as stated: a completed task has incomplete = false, timerEnd = null  *)
(* and timerRemainingSeconds = 0.                                          *)
C4_CompletedCleared ==
    \A i \in 1..Len(tasks) :
        tasks[i].completed =>
            /\ ~tasks[i].incomplete
            /\ tasks[i].timerEnd = Null
            /\ tasks[i].timerRemainingSeconds = 0

(* C4 amended: a completed task has incomplete = false and timerEnd =      *)
(* null, and timerRemainingSeconds = 0 or, once reset while completed,     *)
(* timerSeconds.                                                           *)
C4_CompletedStopped ==
    \A i \in 1..Len(tasks) :
        tasks[i].completed =>
            /\ ~tasks[i].incomplete
            /\ tasks[i].timerEnd = Null
            /\ tasks[i].timerRemainingSeconds \in {0, tasks[i].timerSeconds}

(* A completed task whose timer was reset after it was completed *)
C4_Witness ==
    /\ out.op = "resetTimer"
    /\ out.changed
    /\ \E i \in 1..Len(tasks) :
        /\ tasks[i].id = out.id
        /\ tasks[i].completed
        /\ tasks[i].timerSeconds > 0
        /\ tasks[i].timerRemainingSeconds = tasks[i].timerSeconds

(* C5: an incomplete task has timerEnd = null and timerRemainingSeconds =  *)
(* 0 in every reachable state.                                             *)
C5_IncompleteStopped ==
    \A i \in 1..Len(tasks) :
        tasks[i].incomplete =>
            /\ tasks[i].timerEnd = Null
            /\ tasks[i].timerRemainingSeconds = 0

(* A task that the tick has just marked incomplete *)
C5_Witness ==
    /\ out.op = "checkTimers"
    /\ out.changed
    /\ \E i \in 1..Len(tasks) : tasks[i].incomplete

(* C6: 0 <= timerRemainingSeconds <= timerSeconds for every task in every  *)
(* reachable state, whatever pauses and starts there were.                 *)
C6_RemainingWithinDuration ==
    \A i \in 1..Len(tasks) :
        /\ 0 <= tasks[i].timerRemainingSeconds
        /\ tasks[i].timerRemainingSeconds <= tasks[i].timerSeconds

(* A timer paused, started again and paused half a second before its end *)
C6_Witness ==
    /\ out.op = "pauseTimer"
    /\ out.changed
    /\ now = 60000
    /\ \E i \in 1..Len(tasks) :
        /\ tasks[i].id = out.id
        /\ tasks[i].timerSeconds = 60
        /\ tasks[i].timerRemainingSeconds = 1

(* C7 as stated: once incomplete is true it stays true under every step    *)
(* other than resetTimer on that task.                                     *)
C7_StickyButReset ==
    [][\A i \in 1..Len(tasks) :
        (/\ tasks[i].incomplete
         /\ tasks[i].id \in Ids(tasks')
         /\ ~(out'.op = "resetTimer" /\ out'.id = tasks[i].id))
        => TaskOf(tasks', tasks[i].id).incomplete]_vars

(* C7 amended: once incomplete is true it stays true under every step      *)
(* other than resetTimer on that task and toggleTask on that task; a       *)
(* reload keeps it.                                                        *)
C7_StickyButResetOrToggle ==
    [][\A i \in 1..Len(tasks) :
        (/\ tasks[i].incomplete
         /\ tasks[i].id \in Ids(tasks')
         /\ ~(out'.op = "resetTimer" /\ out'.id = tasks[i].id)
         /\ ~(out'.op = "toggleTask" /\ out'.id = tasks[i].id))
        => TaskOf(tasks', tasks[i].id).incomplete]_vars

(* A start asked of an incomplete task, which stays incomplete *)
C7_Witness ==
    /\ out.op = "startTimer"
    /\ \E i \in 1..Len(tasks) :
        /\ tasks[i].id = out.id
        /\ tasks[i].incomplete

(* C8: checkExpiry marks exactly the tasks whose timer runs, that are not  *)
(* completed nor incomplete and whose timerEnd the clock has reached,      *)
(* leaves the others as they were, and reports changed and saves exactly   *)
(* when one expired.                                                       *)
C8_CheckExpiry ==
    [][out'.op = "checkTimers" =>
        LET any == \E i \in 1..Len(tasks) : DeadlineReached(tasks[i], now)
        IN  /\ Len(tasks') = Len(tasks)
            /\ \A i \in 1..Len(tasks) :
                tasks'[i] = IF DeadlineReached(tasks[i], now)
                            THEN MarkedIncomplete(tasks[i])
                            ELSE tasks[i]
            /\ out'.changed = any
            /\ any => /\ out'.save = "saved"
                      /\ storage' = JSONArray(JSONStringify(tasks'))
            /\ ~any => /\ out'.save = "none"
                       /\ storage' = storage]_vars

(* A tick that expired one task and left a running one alone *)
C8_Witness ==
    /\ out.op = "checkTimers"
    /\ out.changed
    /\ \E i, j \in 1..Len(tasks) :
        /\ tasks[i].incomplete
        /\ tasks[j].timerEnd # Null
        /\ tasks[j].timerEnd > now

(* C9: every step emits one expiry notification for each task whose        *)
(* incomplete flag it turned from false to true and none for any other     *)
(* task, so a task that is already incomplete is not notified again.       *)
C9_OneToastPerExpiry ==
    [][/\ Len(out'.toasts) = Cardinality(NewlyIncomplete)
       /\ \A i \in 1..Len(tasks') :
            Cardinality({k \in 1..Len(out'.toasts) :
                            out'.toasts[k] = tasks'[i].text})
            = IF i \in NewlyIncomplete THEN 1 ELSE 0]_vars

(* A tick that notified the second expiry and not the earlier one again *)
C9_Witness ==
    /\ out.op = "checkTimers"
    /\ Len(out.toasts) = 1
    /\ Len(tasks) = 2
    /\ tasks[1].incomplete
    /\ tasks[2].incomplete
    /\ out.toasts[1] = tasks[2].text

(* C10: an add whose trimmed text is empty, shorter than 3 or longer than  *)
(* 200 characters fails with the matching error and leaves the tasks, the  *)
(* counter and the stored copy as they were.                               *)
C10_InvalidAddRejected ==
    [][out'.op = "addTask" =>
        \A raw \in RawTexts :
            LET expected == ExpectedError(raw)
            IN  (expected # "" /\ out'.text = Trim(raw)) =>
                    \A m \in TimerInputs, q \in QuotaOutcomes :
                        addTask(raw, m, q)
                        => /\ out'.err = expected
                           /\ UNCHANGED <<tasks, taskId, storage>>]_vars

(* A too-long text refused while the collection holds a task *)
C10_Witness ==
    /\ out.op = "addTask"
    /\ out.err = "TooLong"
    /\ Len(out.text) = 201
    /\ Len(tasks) > 0
    /\ storage = JSONArray(JSONStringify(tasks))

(* C11: add reports the first rule that fails in the order Empty,          *)
(* TooShort, TooLong, LimitReached, Duplicate, and only that one: a        *)
(* too-short text on a full collection fails with TooShort, a duplicate on *)
(* a full collection with LimitReached.                                    *)
C11_FirstFailingRule ==
    [][out'.op = "addTask" =>
        \A raw \in LimitTexts :
            out'.text = Trim(raw) =>
                \A m \in LimitTimerInputs, q \in QuotaOutcomes :
                    addTask(raw, m, q)
                    => out'.err = FirstFailing(raw, tasks)]_vars

(* A duplicate text refused on a full collection because of the limit *)
C11_Witness ==
    /\ out.op = "addTask"
    /\ out.err = "LimitReached"
    /\ Len(tasks) = MAX_TASKS
    /\ HasTextLike(tasks, out.text)

(* C12 as stated: the collection never holds more than 100 tasks, every    *)
(* add on a collection of 100 fails with LimitReached and changes nothing, *)
(* and an add succeeds again once a task is deleted.                       *)
C12_FullAddLimitReached ==
    [][/\ Len(tasks) <= 100 /\ Len(tasks') <= 100
       /\ out'.op = "addTask" =>
            /\ Len(tasks) >= 100 =>
                    /\ out'.err = "LimitReached"
                    /\ UNCHANGED <<tasks, taskId, storage>>
            /\ \A raw \in LimitTexts, m \in LimitTimerInputs,
                  q \in QuotaOutcomes :
                    (/\ addTask(raw, m, q)
                     /\ Len(tasks) < 100
                     /\ ExpectedError(raw) = ""
                     /\ ~HasTextLike(tasks, Trim(raw)))
                    => /\ out'.err = ""
                       /\ Len(tasks') = Len(tasks) + 1]_vars

(* C12 amended: the collection never holds more than 100 tasks, every add  *)
(* on a collection of 100 fails and changes nothing, with LimitReached     *)
(* when its trimmed text is 3 to 200 characters long and with the error of *)
(* the text rule otherwise, and an add succeeds again once a task is       *)
(* deleted.                                                                *)
C12_AtMostMaxTasks ==
    [][/\ Len(tasks) <= 100 /\ Len(tasks') <= 100
       /\ out'.op = "addTask" =>
            \A raw \in LimitTexts, m \in LimitTimerInputs,
              q \in QuotaOutcomes :
                addTask(raw, m, q) =>
                    /\ Len(tasks) >= 100 =>
                            /\ out'.err = IF ExpectedError(raw) = ""
                                          THEN "LimitReached"
                                          ELSE ExpectedError(raw)
                            /\ UNCHANGED <<tasks, taskId, storage>>
                    /\ (/\ Len(tasks) < 100
                        /\ ExpectedError(raw) = ""
                        /\ ~HasTextLike(tasks, Trim(raw)))
                       => /\ out'.err = ""
                          /\ Len(tasks') = Len(tasks) + 1]_vars

(* The collection filled again by an add after a delete had made room *)
C12_Witness ==
    /\ out.op = "addTask"
    /\ out.err = ""
    /\ out.id = MAX_TASKS + 1
    /\ Len(tasks) = MAX_TASKS
    /\ \E i \in 1..MAX_TASKS : i \notin Ids(tasks)

(* C13 as stated: no two tasks have texts equal ignoring case, every add   *)
(* whose trimmed text equals an existing text ignoring case fails with     *)
(* Duplicate, and a text can be added again once its task is deleted.      *)
C13_DuplicateAlwaysReported ==
    [][/\ NoLikeTexts(tasks) /\ NoLikeTexts(tasks')
       /\ out'.op = "addTask" =>
            \A raw \in LimitTexts, m \in LimitTimerInputs,
              q \in QuotaOutcomes :
                addTask(raw, m, q) =>
                    /\ HasTextLike(tasks, Trim(raw))
                       => /\ out'.err = "Duplicate"
                          /\ UNCHANGED <<tasks, taskId, storage>>
                    /\ (/\ ~HasTextLike(tasks, Trim(raw))
                        /\ ExpectedError(raw) = ""
                        /\ Len(tasks) < 100)
                       => /\ out'.err = ""
                          /\ Last(tasks').text = Trim(raw)]_vars

(* C13 amended: no two tasks have texts equal ignoring case, an add whose  *)
(* trimmed text equals an existing text ignoring case fails, with          *)
(* Duplicate on a collection of fewer than 100 tasks and with LimitReached *)
(* on a full one, and a text can be added again once its task is deleted.  *)
C13_UniqueIgnoringCase ==
    [][/\ NoLikeTexts(tasks) /\ NoLikeTexts(tasks')
       /\ out'.op = "addTask" =>
            \A raw \in LimitTexts, m \in LimitTimerInputs,
              q \in QuotaOutcomes :
                addTask(raw, m, q) =>
                    /\ HasTextLike(tasks, Trim(raw))
                       => /\ out'.err = IF Len(tasks) < 100 THEN "Duplicate"
                                        ELSE "LimitReached"
                          /\ UNCHANGED <<tasks, taskId, storage>>
                    /\ (/\ ~HasTextLike(tasks, Trim(raw))
                        /\ ExpectedError(raw) = ""
                        /\ Len(tasks) < 100)
                       => /\ out'.err = ""
                          /\ Last(tasks').text = Trim(raw)]_vars

(* The text of the deleted first task, in capitals, added again *)
C13_Witness ==
    /\ out.op = "addTask"
    /\ out.err = ""
    /\ SameIgnoringCase(out.text, SavedText(1))
    /\ 1 \notin Ids(tasks)
    /\ Last(tasks).text = out.text

(* C14: a successful add(text, timerMinutes) appends exactly one task at   *)
(* the end, with completed = false, incomplete = false, timerSeconds =     *)
(* timerMinutes * 60 (0 when timerMinutes <= 0), timerRemainingSeconds =   *)
(* timerSeconds and timerEnd = now + timerSeconds * 1000 when timerSeconds *)
(* > 0, null otherwise; the earlier tasks are unchanged.                   *)
C14_AddAppendsTask ==
    [][AddSucceeded =>
        \A raw \in RawTexts :
            out'.text = Trim(raw) =>
                \A m \in TimerInputs, q \in QuotaOutcomes :
                    addTask(raw, m, q) =>
                        LET seconds == IF m <= 0 THEN 0 ELSE m * 60
                            new == Last(tasks')
                        IN  /\ Len(tasks') = Len(tasks) + 1
                            /\ SubSeq(tasks', 1, Len(tasks)) = tasks
                            /\ ~new.completed
                            /\ ~new.incomplete
                            /\ new.timerSeconds = seconds
                            /\ new.timerRemainingSeconds = seconds
                            /\ new.timerEnd = IF seconds > 0
                                              THEN now + seconds * 1000
                                              ELSE Null]_vars

(* A task with a one-minute timer added after another, later than time 0 *)
C14_Witness ==
    /\ out.op = "addTask"
    /\ out.err = ""
    /\ Len(tasks) = 2
    /\ now > 0
    /\ Last(tasks).id = out.id
    /\ Last(tasks).timerSeconds = 60
    /\ Last(tasks).timerEnd = now + 60000

(* C15: start changes nothing on a completed, incomplete or running task;  *)
(* otherwise it first refills timerRemainingSeconds from timerSeconds when *)
(* it is 0 and timerSeconds > 0, then sets timerEnd = now + remaining *    *)
(* 1000 when remaining > 0; with timerSeconds = 0 it never sets timerEnd.  *)
C15_Start ==
    [][(out'.op = "startTimer" /\ out'.id \in Ids(tasks)) =>
        LET t == TaskOf(tasks, out'.id)
        IN  /\ OnlyTaskBecomes(t.id, StartOf(t, now))
            /\ t.timerSeconds = 0 => TaskOf(tasks', t.id).timerEnd = Null
            /\ UNCHANGED taskId]_vars

(* A timer that had run out, refilled and started a second after its end *)
C15_Witness ==
    /\ out.op = "startTimer"
    /\ out.changed
    /\ now = 61000
    /\ \E i \in 1..Len(tasks) :
        /\ tasks[i].id = out.id
        /\ tasks[i].timerRemainingSeconds = 60
        /\ tasks[i].timerEnd = 121000

(* C16: pause changes nothing on a completed, incomplete or stopped task;  *)
(* otherwise it sets timerRemainingSeconds = max(0, round((timerEnd - now) *)
(* / 1000)) and clears timerEnd, and a later start of the paused task      *)
(* resumes from exactly that value when it is greater than 0.              *)
C16_Pause ==
    [][/\ (out'.op = "pauseTimer" /\ out'.id \in Ids(tasks)) =>
            LET t == TaskOf(tasks, out'.id)
            IN  /\ OnlyTaskBecomes(t.id, PauseOf(t, now))
                /\ UNCHANGED taskId
       /\ (out'.op = "startTimer" /\ out'.id \in Ids(tasks)) =>
            LET t == TaskOf(tasks, out'.id)
                u == TaskOf(tasks', out'.id)
            IN  (/\ ~t.completed /\ ~t.incomplete /\ t.timerEnd = Null
                 /\ t.timerRemainingSeconds > 0)
                => /\ u.timerRemainingSeconds = t.timerRemainingSeconds
                   /\ u.timerEnd = now + t.timerRemainingSeconds * 1000]_vars

(* A one-minute timer paused after 29.5 seconds: 30.5 rounds to 31 *)
C16_Witness ==
    /\ out.op = "pauseTimer"
    /\ out.changed
    /\ now = 29500
    /\ \E i \in 1..Len(tasks) :
        /\ tasks[i].id = out.id
        /\ tasks[i].timerRemainingSeconds = 31
        /\ tasks[i].timerEnd = Null

(* C17: reset acts in every state of the task, completed and incomplete    *)
(* included, and leaves timerRemainingSeconds = timerSeconds, timerEnd =   *)
(* null and incomplete = false without changing completed.                 *)
C17_Reset ==
    [][(out'.op = "resetTimer" /\ out'.id \in Ids(tasks)) =>
        LET t == TaskOf(tasks, out'.id)
        IN  /\ OnlyTaskBecomes(t.id,
                    [t EXCEPT !.timerRemainingSeconds = t.timerSeconds,
                              !.timerEnd = Null,
                              !.incomplete = FALSE])
            /\ TaskOf(tasks', t.id).completed = t.completed
            /\ out'.changed
            /\ storage' = JSONArray(JSONStringify(tasks'))]_vars

(* A completed task's timer reset a second after its former deadline *)
C17_Witness ==
    /\ out.op = "resetTimer"
    /\ out.changed
    /\ now = 61000
    /\ \E i \in 1..Len(tasks) :
        /\ tasks[i].id = out.id
        /\ tasks[i].completed
        /\ tasks[i].timerRemainingSeconds = 60
        /\ tasks[i].timerEnd = Null

(* C18: toggleCompleted on an existing task flips completed; a task that   *)
(* becomes completed gets incomplete = false, timerEnd = null and          *)
(* timerRemainingSeconds = 0; a task that becomes not completed keeps its  *)
(* timer fields and incomplete as they were.                               *)
C18_Toggle ==
    [][(out'.op = "toggleTask" /\ out'.id \in Ids(tasks)) =>
        LET t == TaskOf(tasks, out'.id)
        IN  OnlyTaskBecomes(t.id,
                IF t.completed
                THEN [t EXCEPT !.completed = FALSE]
                ELSE [t EXCEPT !.completed = TRUE,
                               !.incomplete = FALSE,
                               !.timerEnd = Null,
                               !.timerRemainingSeconds = 0])]_vars

(* A completed task whose timer had been reset, made active again: its     *)
(* remaining time is still the full minute                                 *)
C18_Witness ==
    /\ out.op = "toggleTask"
    /\ out.changed
    /\ \E i \in 1..Len(tasks) :
        /\ tasks[i].id = out.id
        /\ ~tasks[i].completed
        /\ tasks[i].timerEnd = Null
        /\ tasks[i].timerRemainingSeconds = 60

(* C19: for every task of every reachable state, toggleCompleted applied   *)
(* twice in a row returns completed to its value; timerEnd,                *)
(* timerRemainingSeconds and incomplete need not return to theirs.         *)
C19_ToggleTwice ==
    \A i \in 1..Len(tasks) :
        LET twice == Toggled(Toggled(tasks[i]))
        IN  /\ twice.completed = tasks[i].completed
            /\ twice.id = tasks[i].id
            /\ twice.text = tasks[i].text
            /\ twice.timerSeconds = tasks[i].timerSeconds

(* A running task that two toggles in a row would leave stopped at 0 *)
C19_Witness ==
    /\ out.op = "toggleTask"
    /\ out.changed
    /\ \E i \in 1..Len(tasks) :
        /\ tasks[i].id # out.id
        /\ tasks[i].timerEnd # Null
        /\ Toggled(Toggled(tasks[i])) # tasks[i]
    /\ \E i \in 1..Len(tasks) :
        /\ tasks[i].id = out.id
        /\ ~tasks[i].completed
        /\ tasks[i].timerSeconds = 60
        /\ tasks[i].timerRemainingSeconds = 0

(* C20: delete(id) removes exactly the task with that id, keeps every      *)
(* other task unchanged and in the same relative order, and does not       *)
(* change the id counter.                                                  *)
C20_Delete ==
    [][out'.op = "deleteTask" =>
        LET pos == IF out'.id \in Ids(tasks) THEN Find(tasks, out'.id)
                   ELSE Len(tasks) + 1
        IN  /\ Len(tasks') = IF pos <= Len(tasks) THEN Len(tasks) - 1
                             ELSE Len(tasks)
            /\ \A k \in 1..Len(tasks') :
                    tasks'[k] = tasks[IF k < pos THEN k ELSE k + 1]
            /\ out'.id \notin Ids(tasks')
            /\ taskId' = taskId]_vars

(* The first of two tasks deleted: the second is now the first *)
C20_Witness ==
    /\ out.op = "deleteTask"
    /\ out.changed
    /\ out.id = 1
    /\ Len(tasks) = 1
    /\ tasks[1].id = 2
    /\ taskId = 2

(* C21: clearCompleted removes every completed task and no other; the      *)
(* tasks that stay keep their fields and their relative order, and         *)
(* afterwards stats().completed = 0.                                       *)
C21_ClearCompleted ==
    [][out'.op = "clearCompleted" =>
        /\ IsSelection(tasks', tasks, LAMBDA t : ~t.completed)
        /\ getStats(tasks').completed = 0
        /\ UNCHANGED taskId]_vars

(* The completed first task cleared, the expired second one kept *)
C21_Witness ==
    /\ out.op = "clearCompleted"
    /\ out.changed
    /\ Len(tasks) = 1
    /\ tasks[1].id = 2
    /\ tasks[1].incomplete

(* C22: delete, toggleCompleted, start, pause and reset called with an id  *)
(* that matches no task leave the task collection and the id counter       *)
(* unchanged.                                                              *)
C22_UnknownIdNoOp ==
    [][(/\ out'.op \in {"deleteTask", "toggleTask", "startTimer",
                        "pauseTimer", "resetTimer"}
        /\ out'.id \notin Ids(tasks))
       => UNCHANGED <<tasks, taskId>>]_vars

(* A reset asked for an id that the one task of the collection has not *)
C22_Witness ==
    /\ out.op = "resetTimer"
    /\ ~out.changed
    /\ Len(tasks) = 1
    /\ out.id \notin Ids(tasks)
    /\ tasks[1].timerEnd # Null

(* C23: the visible tasks of a filter are exactly the tasks that satisfy   *)
(* its predicate, in the order of the collection: all gives every task,    *)
(* active the tasks neither completed nor incomplete, completed the        *)
(* completed ones, incomplete the incomplete ones, any other value every   *)
(* task.                                                                   *)
C23_Filters ==
    /\ getFilteredTasks("all", tasks) = tasks
    /\ IsSelection(getFilteredTasks("active", tasks), tasks,
                   LAMBDA t : ~t.completed /\ ~t.incomplete)
    /\ \A i \in 1..Len(getFilteredTasks("active", tasks)) :
            /\ ~getFilteredTasks("active", tasks)[i].completed
            /\ ~getFilteredTasks("active", tasks)[i].incomplete
    /\ IsSelection(getFilteredTasks("completed", tasks), tasks,
                   LAMBDA t : t.completed)
    /\ IsSelection(getFilteredTasks("incomplete", tasks), tasks,
                   LAMBDA t : t.incomplete)
    /\ \A f \in Filters \ {"active", "completed", "incomplete"} :
            getFilteredTasks(f, tasks) = tasks

(* A completed task before an expired one: the active view is empty, the   *)
(* incomplete view holds the second task                                   *)
C23_Witness ==
    /\ Len(tasks) = 2
    /\ tasks[1].completed
    /\ tasks[2].incomplete
    /\ getFilteredTasks("active", tasks) = <<>>
    /\ getFilteredTasks("incomplete", tasks) = <<tasks[2]>>
    /\ getFilteredTasks("completed", tasks) = <<tasks[1]>>

(* C24: stats() returns total = the number of tasks, completed = the       *)
(* number of completed tasks and remaining = total - completed, which is   *)
(* never negative and counts the incomplete tasks with the active ones.    *)
C24_Stats ==
    LET stats == getStats(tasks)
        Done(t) == t.completed
        Open(t) == ~t.completed
    IN  /\ stats.total = Len(tasks)
        /\ stats.completed = Cardinality(Positions(tasks, Done))
        /\ stats.remaining = stats.total - stats.completed
        /\ stats.remaining >= 0
        /\ stats.remaining = Cardinality(Positions(tasks, Open))

(* An expired task next to a completed one: one task remains *)
C24_Witness ==
    /\ Len(tasks) = 2
    /\ tasks[1].incomplete
    /\ tasks[2].completed
    /\ getStats(tasks) = [total |-> 2, completed |-> 1, remaining |-> 1]

(* C25: for every reachable collection, a successful save followed by a    *)
(* load gives the same tasks in the same order with the same id, text,     *)
(* completed, timerSeconds, timerRemainingSeconds, timerEnd and            *)
(* incomplete, and loading a second time gives the same result.            *)
C25_SaveLoadRoundTrip ==
    LET saved == saveTasks(tasks, storage, TRUE)
        first == loadTasks(<<>>, 0, saved, date)
        second == loadTasks(first[1], first[2], saved, date)
    IN  /\ Len(first[1]) = Len(tasks)
        /\ \A i \in 1..Len(tasks) :
            /\ first[1][i].id = tasks[i].id
            /\ first[1][i].text = tasks[i].text
            /\ first[1][i].completed = tasks[i].completed
            /\ first[1][i].timerSeconds = tasks[i].timerSeconds
            /\ first[1][i].timerRemainingSeconds
                    = tasks[i].timerRemainingSeconds
            /\ first[1][i].timerEnd = tasks[i].timerEnd
            /\ first[1][i].incomplete = tasks[i].incomplete
        /\ second[1] = first[1]

(* A reload that brought back a running timer and an expired one from the  *)
(* copy the page had saved                                                 *)
C25_Witness ==
    /\ out.op = "initApp"
    /\ Len(tasks) = 2
    /\ storage = JSONArray(JSONStringify(tasks))
    /\ tasks[1].incomplete
    /\ tasks[2].timerEnd # Null
    /\ tasks[2].timerRemainingSeconds = 31

C27_Normalized ==
    (out.op \in {"initApp", "initAppAgain"} /\ storage.kind = "array") =>
        /\ Len(tasks) = Len(storage.value)
        /\ \A i \in 1..Len(tasks) :
            LET r == storage.value[i]
            IN  /\ tasks[i].id = r.id
                /\ tasks[i].text = r.text
                /\ tasks[i].completed = Field(r, "completed", FALSE)
                /\ tasks[i].timerSeconds = Field(r, "timerSeconds", 0)
                /\ tasks[i].timerRemainingSeconds =
                        Field(r, "timerRemainingSeconds",
                              Field(r, "timerSeconds", 0))
                /\ tasks[i].timerEnd = Field(r, "timerEnd", Null)
                /\ tasks[i].incomplete = Field(r, "incomplete", FALSE)

(* A record stored with a one-minute timer at 0 seconds and without the    *)
(* incomplete and timerEnd fields: loaded with 0 seconds left              *)
C27_Witness ==
    /\ out.op = "initApp"
    /\ storage.kind = "array"
    /\ Len(tasks) = 1
    /\ DOMAIN storage.value[1] =
            {"id", "text", "completed", "timerSeconds",
             "timerRemainingSeconds"}
    /\ storage.value[1].timerSeconds = 60
    /\ tasks[1].timerRemainingSeconds = 0
    /\ tasks[1].timerEnd = Null
    /\ ~tasks[1].incomplete

(* C28 as stated: after a load the id counter is the largest id among the  *)
(* loaded tasks, or 0 when the loaded collection is empty, whatever the    *)
(* counter was before.                                                     *)
C28_CounterMaxOrZero ==
    [][out'.op \in {"initApp", "initAppAgain"} =>
        taskId' = IF tasks' = <<>> THEN 0 ELSE MaxOf(Ids(tasks'))]_vars

(* C28 amended: after a load that found tasks in the store the id counter  *)
(* is the largest id among them; a load that found none leaves the counter *)
(* as it was, which is 0 when the page has just been opened.               *)
C28_CounterMaxOrKept ==
    [][/\ out'.op = "initApp" =>
            taskId' = IF tasks' = <<>> THEN 0 ELSE MaxOf(Ids(tasks'))
       /\ out'.op = "initAppAgain" =>
            taskId' = IF storage.kind = "array" /\ storage.value # <<>>
                      THEN MaxOf(Ids(tasks'))
                      ELSE taskId]_vars

(* A second load that found the stored array empty and left the counter    *)
(* where the deleted tasks had put it                                      *)
C28_Witness ==
    /\ out.op = "initAppAgain"
    /\ storage = JSONArray(<<>>)
    /\ tasks = <<>>
    /\ taskId = 2

(* C29: when a save fails, the mutation made in memory before it stays     *)
(* applied, the stored copy keeps its previous value and the handler ends  *)
(* without an error; the next save that succeeds makes the stored copy     *)
(* equal to the tasks in memory again.                                     *)
C29_FailedSaveKeepsMutation ==
    [][/\ out'.save = "failed" =>
            /\ storage' = storage
            /\ MutationApplied
            /\ out'.err = ""
       /\ out'.save = "saved" =>
            /\ storage' = JSONArray(JSONStringify(tasks'))
            /\ MutationApplied]_vars

(* A task completed in memory while the stored array still has it active *)
C29_Witness ==
    /\ out.op = "toggleTask"
    /\ out.save = "failed"
    /\ storage.kind = "array"
    /\ Len(storage.value) = 1
    /\ Len(tasks) = 1
    /\ tasks[1].completed
    /\ ~storage.value[1].completed

(* C30: while no save fails, from a store that holds nothing or an array   *)
(* this program wrote, the stored array equals the whole task sequence in  *)
(* memory after every add, delete, toggle, clearCompleted, start, pause,   *)
(* reset and checkExpiry: each write replaces the full collection and no   *)
(* change of the tasks is left unsaved.                                    *)
C30_StoreFollowsMemory ==
    [][out'.op \in Operations =>
        /\ InSync(storage, tasks) => InSync(storage', tasks')
        /\ tasks' # tasks => storage' = JSONArray(JSONStringify(tasks'))
        /\ storage' # storage => storage' = JSONArray(JSONStringify(tasks'))
      ]_vars

(* The last task deleted: the stored array is empty like the collection *)
C30_Witness ==
    /\ out.op = "deleteTask"
    /\ out.changed
    /\ tasks = <<>>
    /\ storage = JSONArray(<<>>)
    /\ taskId = 2

(* C31: in every reachable state a task with timerSeconds = 0 has          *)
(* timerEnd = null: no add, start, pause, reset, toggle or tick starts a   *)
(* timer on a task that was created without one.                           *)
C31_NoDurationNoTimer ==
    \A i \in 1..Len(tasks) :
        tasks[i].timerSeconds = 0 => tasks[i].timerEnd = Null

(* Start pressed on an open task that was added without a timer *)
C31_Witness ==
    /\ out.op = "startTimer"
    /\ \E i \in 1..Len(tasks) :
        /\ tasks[i].id = out.id
        /\ tasks[i].timerSeconds = 0
        /\ ~tasks[i].completed
        /\ ~tasks[i].incomplete

C35_OnlyThatTask ==
    [][out'.op \in {"toggleTask", "startTimer", "pauseTimer", "resetTimer"} =>
        /\ Len(tasks') = Len(tasks)
        /\ \A i \in 1..Len(tasks) :
                /\ tasks'[i].id = tasks[i].id
                /\ tasks[i].id # out'.id => tasks'[i] = tasks[i]
        /\ UNCHANGED taskId]_vars

(* The second of two tasks paused while the timer of the first runs on *)
C35_Witness ==
    /\ out.op = "pauseTimer"
    /\ out.changed
    /\ out.id = 2
    /\ Len(tasks) = 2
    /\ tasks[1].id = 1
    /\ tasks[1].timerEnd # Null
    /\ tasks[2].id = 2
    /\ tasks[2].timerEnd = Null
    /\ tasks[2].timerRemainingSeconds > 0

(* C36: in every reachable state the ids of the task sequence are strictly *)
(* increasing (insertion order is id order) and the id counter is at least *)
(* the largest id in the sequence, after any mix of add, delete,           *)
(* clearCompleted and load.                                                *)
C36_IdsIncreasing ==
    /\ \A i \in 1..Len(tasks) : \A j \in 1..Len(tasks) :
            i < j => tasks[i].id < tasks[j].id
    /\ \A i \in 1..Len(tasks) : tasks[i].id <= taskId

(* The first of two tasks deleted and the page loaded again *)
C36_Witness ==
    /\ out.op = "initApp"
    /\ Len(tasks) = 1
    /\ tasks[1].id = 2
    /\ taskId = 2
    /\ assigned = {1, 2}

(* C37: in every reachable state each task appears in exactly one of the   *)
(* active, completed and incomplete views: the three views are pairwise    *)
(* disjoint and their sizes add up to stats().total.                       *)
C37_ViewsPartition ==
    LET views == {"active", "completed", "incomplete"}
        InView(t, v) ==
            \E k \in 1..Len(getFilteredTasks(v, tasks)) :
                getFilteredTasks(v, tasks)[k] = t
    IN  /\ \A i \in 1..Len(tasks) :
                Cardinality({v \in views : InView(tasks[i], v)}) = 1
        /\ Len(getFilteredTasks("active", tasks))
             + Len(getFilteredTasks("completed", tasks))
             + Len(getFilteredTasks("incomplete", tasks))
               = getStats(tasks).total

(* An expired task next to one that was completed: no active task *)
C37_Witness ==
    /\ out.op = "toggleTask"
    /\ Len(tasks) = 2
    /\ Len(getFilteredTasks("incomplete", tasks)) = 1
    /\ Len(getFilteredTasks("completed", tasks)) = 1
    /\ getFilteredTasks("active", tasks) = <<>>

(* The timer of the task with this id is running *)
Running(id) ==
    \E i \in 1..Len(tasks) : tasks[i].id = id /\ tasks[i].timerEnd # Null

(* C38: while the clock keeps advancing and the periodic checkTimers tick  *)
(* keeps firing, every running timer eventually stops: a task with a       *)
(* timerEnd eventually has timerEnd = null or is gone, by expiry, pause,   *)
(* reset, completion or deletion.                                          *)
C38_RunningTimerStops ==
    \A id \in LiveIds : Running(id) ~> ~Running(id)

(* A timer started at the last moment the horizon allows, expired by the   *)
(* tick at the end of the clock                                            *)
C38_Witness ==
    /\ out.op = "checkTimers"
    /\ out.changed
    /\ now = LiveEnd
    /\ \E i \in 1..Len(tasks) :
        /\ tasks[i].incomplete
        /\ tasks[i].timerEnd = Null

(* C39: a running timer survives a reload. timerEnd is saved as an         *)
(* absolute time and loaded as it was saved; the first checkTimers after   *)
(* the load marks incomplete (timerEnd = null, timerRemainingSeconds = 0,  *)
(* one notification) every task that is not completed and whose timerEnd   *)
(* passed while the page was closed, and leaves a task whose timerEnd has  *)
(* not passed running toward the same timerEnd.                            *)
C39_TimerSurvivesReload ==
    [][/\ out'.save = "saved" =>
            \A i \in 1..Len(tasks') :
                storage'.value[i].timerEnd = tasks'[i].timerEnd
       /\ (out'.op = "initApp" /\ storage.kind = "array") =>
            /\ Len(tasks') = Len(storage.value)
            /\ \A i \in 1..Len(storage.value) :
                    Field(storage.value[i], "timerEnd", Null) # Null =>
                        tasks'[i].timerEnd = storage.value[i].timerEnd
       /\ (out.op = "initApp" /\ out'.op = "checkTimers") =>
            /\ Len(tasks') = Len(tasks)
            /\ \A i \in 1..Len(tasks) :
                    (tasks[i].timerEnd # Null /\ ~tasks[i].completed
                        /\ ~tasks[i].incomplete) =>
                        IF now >= tasks[i].timerEnd
                        THEN /\ tasks'[i] = MarkedIncomplete(tasks[i])
                             /\ Cardinality({k \in 1..Len(out'.toasts) :
                                    out'.toasts[k] = tasks[i].text}) = 1
                        ELSE tasks'[i] = tasks[i]
      ]_vars

(* The page loaded a second after the deadline of one saved timer and long *)
(* before the deadline of another                                          *)
C39_Witness ==
    /\ out.op = "initApp"
    /\ now = 61000
    /\ Len(tasks) = 2
    /\ tasks[1].timerEnd = 60000
    /\ ~tasks[1].completed
    /\ ~tasks[1].incomplete
    /\ tasks[2].timerEnd = 89500
    /\ storage = JSONArray(JSONStringify(tasks))

(* C32: the start of the periodic tick is guarded: however many times      *)
(* initApp runs, the page has at most one periodic checkTimers timer       *)
(* going, the one whose handle window.__taskTimerInterval holds, so the    *)
(* expiry check is not fired twice in a period.                            *)
C32_OneTicker ==
    /\ Cardinality(intervals) <= 1
    /\ taskTimerInterval # Null
    /\ intervals = {taskTimerInterval}

(* initApp has run again on the page that already had its tick going *)
C32_Witness ==
    /\ out.op = "initAppAgain"
    /\ taskTimerInterval = 1
    /\ intervals = {1}
    /\ tasks # <<>>

(* The fields of a task that are given at its creation *)
CreationFields(t) == <<t.id, t.text, t.createdAt, t.timerSeconds>>

(* C34: no operation changes the id, text, createdAt or timerSeconds of a  *)
(* task that already exists: from its creation until its deletion these    *)
(* fields keep the values of its creation, and a save writes and a load    *)
(* reads back those same values.                                           *)
C34_CreationFieldsKept ==
    [][/\ \A i \in 1..Len(tasks) : \A j \in 1..Len(tasks') :
            tasks'[j].id = tasks[i].id =>
                CreationFields(tasks'[j]) = CreationFields(tasks[i])
       /\ AddSucceeded =>
            CreationFields(Last(tasks')) =
                <<taskId + 1, out'.text, date, Last(tasks').timerSeconds>>
       /\ out'.save = "saved" =>
            /\ Len(storage'.value) = Len(tasks')
            /\ \A i \in 1..Len(tasks') :
                    LET r == storage'.value[i]
                    IN  <<r.id, r.text, NewDate(r.createdAt), r.timerSeconds>>
                            = CreationFields(tasks'[i])
      ]_vars

(* A task added half a minute into the session and completed, on the page  *)
(* as it is loaded again half a minute later                               *)
C34_Witness ==
    /\ out.op = "initApp"
    /\ now = 60000
    /\ \E i \in 1..Len(tasks) :
        /\ tasks[i].createdAt = 29500
        /\ tasks[i].timerSeconds = 60
        /\ tasks[i].completed

====
